---- MODULE Spec2Model ----
(***************************************************************************)
(* Model of homework.py: a single-threaded bot that polls the homework     *)
(* status API, formats the first homework of the answer and forwards it    *)
(* to a Telegram chat, suppressing repeated API errors.                    *)
(*                                                                         *)
(* Python exceptions are values: every modelled function returns a record  *)
(* with ok = TRUE and a value, or ok = FALSE with the class of the raised  *)
(* exception, the place that raised it and the length of str(error).       *)
(* Texts are modelled by their structure and their length in characters.   *)
(***************************************************************************)
EXTENDS Integers, Sequences, FiniteSets

\* ------------------------------------------------------------------ bounds
\* Integer current_date values the API may answer with are 0..MaxDate.
MaxDate == 2
\* The API answers with at most MaxHomeworks homeworks.
MaxHomeworks == 2
\* errors_cache is followed up to MaxErrors.
MaxErrors == 2
\* Length of a short variable text (a short body, a short value repr).
SmallText == 2
\* The streak history counter saturates at StreakCap ("StreakCap or more").
StreakCap == 2

\* --------------------------------------------------------- program constants
\* len(message) < 5000 in main's finally block.
MESSAGE_CAP == 5000
\* len(NO_CHANGE_MESSAGE)
NoChangeLen == 24
\* len('Изменился статус проверки работы "' + '". ')
StatusFrameLen == 37
\* len('Сбой в работе программы: ')
FailPrefixLen == 25
\* len(request_details) of get_api_answer without the response body
\* (a one-digit from_date, a three-digit status code)
RequestDetailsLen == 144
\* len(str(KeyError('current_date')))
CurrentDateKeyLen == 14
\* len('Метка времени не является целочисленной')
NotIntMsgLen == 39
\* len('список работ - вовсе не список - ')
NotListMsgLen == 33
\* len('Информация о домашнем задании - не слловарь: ')
NotDictMsgLen == 45
\* len(repr('Получен незадокументированный статус работы: '))
UnknownStatusMsgLen == 47
\* Length of a message the interpreter or a library writes itself
\* (UnboundLocalError, TypeError of a subscript, ValueError of fromtimestamp).
BuiltinMsgLen == 83

\* datetime.fromtimestamp accepts timestamps up to a platform limit; the
\* largest modelled date lies beyond it.
MaxTimestamp == MaxDate - 1

\* NO_CHANGE_MESSAGE, and HOMEWORK_STATUSES as status -> verdict text.
HOMEWORK_STATUSES ==
    [approved |-> "verdict_approved",
     reviewing |-> "verdict_reviewing",
     rejected |-> "verdict_rejected"]

\* len() of the texts the model names.
TextLen(s) ==
    CASE s = "verdict_approved" -> 48
      [] s = "verdict_reviewing" -> 35
      [] s = "verdict_rejected" -> 44
      [] s = "None" -> 4
      [] s = "hw" -> SmallText
      [] s = "hw_long" -> MESSAGE_CAP
      [] s = "unknown" -> 7
      [] OTHER -> 0

\* ------------------------------------------------------------------ values
Dates == 0..MaxDate
\* int(time.time()): a positive timestamp datetime can represent.
Now == 1..MaxTimestamp
Sizes == {SmallText, MESSAGE_CAP}

\* A homework of the answer: a dict with an optional homework_name and a
\* status, or something that is no dict.
Statuses == {"approved", "reviewing", "rejected", "unknown"}
HomeworkNames == {"absent", "hw", "hw_long"}
NotADict == [isdict |-> FALSE, homework_name |-> "absent", status |-> "unknown"]
Homeworks ==
    [isdict : {TRUE}, homework_name : HomeworkNames, status : Statuses]
        \cup {NotADict}

RECURSIVE SeqsUpTo(_, _)
SeqsUpTo(S, n) ==
    IF n = 0 THEN {<<>>}
    ELSE LET shorter == SeqsUpTo(S, n - 1)
         IN shorter \cup {Append(q, x) : q \in {p \in shorter : Len(p) = n - 1}, x \in S}

\* main reads homeworks[0] and len(homeworks) only: the first homework is
\* any of Homeworks, the later ones are taken from three of them.
LaterHomeworks ==
    {NotADict,
     [isdict |-> TRUE, homework_name |-> "hw", status |-> "approved"],
     [isdict |-> TRUE, homework_name |-> "hw", status |-> "unknown"]}
HomeworkLists ==
    {<<>>} \cup {<<first>> \o rest : first \in Homeworks,
                                    rest \in SeqsUpTo(LaterHomeworks, MaxHomeworks - 1)}

\* What one HTTP exchange gives.
\*   transport : "ok", "connfail" (requests.get raises), "badjson" (.json() raises)
\*   http_ok   : bool(response), i.e. status code below 400
\*   kind      : type of the decoded body: dict, list, str or a scalar
\*   has_error, has_code : 'error' in body, 'code' in body
\*   date_kind, current_date : body['current_date'] absent, not an int, or an int
\*   hw_kind, homeworks      : body.get('homeworks') absent, not a list, or a list
\*   body_len  : len(str(body));  hw_len : len(str(homeworks)) when not a list
\* Fields the code never reads in a case hold one fixed value there.
Exchange(t, ok, k, e, c, dk, d, hk, h, bl, hl) ==
    [transport |-> t, http_ok |-> ok, kind |-> k, has_error |-> e, has_code |-> c,
     date_kind |-> dk, current_date |-> d, hw_kind |-> hk, homeworks |-> h,
     body_len |-> bl, hw_len |-> hl]

TransportFailures ==
    {Exchange(t, TRUE, "scalar", FALSE, FALSE, "absent", 0, "absent", <<>>, SmallText, SmallText) :
        t \in {"connfail", "badjson"}}
\* A failing HTTP status, or a body that is a scalar, or one holding error/code.
RefusedAnswers ==
    {Exchange("ok", ok, k, e, c, "absent", 0, "absent", <<>>, bl, SmallText) :
        ok \in BOOLEAN, k \in {"dict", "list", "str"}, e \in BOOLEAN, c \in BOOLEAN,
        bl \in Sizes}
    \cup {Exchange("ok", ok, "scalar", FALSE, FALSE, "absent", 0, "absent", <<>>, SmallText, SmallText) :
        ok \in BOOLEAN}
\* Bodies that are a dict: every shape of current_date and homeworks.
DictAnswers ==
    {Exchange("ok", TRUE, "dict", FALSE, FALSE, dk, 0, hk, <<>>, SmallText, hl) :
        dk \in {"absent", "nonint"}, hk \in {"absent", "nonlist"}, hl \in Sizes}
    \cup {Exchange("ok", TRUE, "dict", FALSE, FALSE, dk, 0, "list", h, SmallText, SmallText) :
        dk \in {"absent", "nonint"}, h \in {<<>>}}
    \cup {Exchange("ok", TRUE, "dict", FALSE, FALSE, "int", d, hk, <<>>, SmallText, hl) :
        d \in Dates, hk \in {"absent", "nonlist"}, hl \in Sizes}
    \cup {Exchange("ok", TRUE, "dict", FALSE, FALSE, "int", d, "list", h, SmallText, SmallText) :
        d \in Dates, h \in HomeworkLists}
Exchanges == TransportFailures \cup RefusedAnswers \cup DictAnswers

\* ------------------------------------------------------- results of calls
Return(v) == [ok |-> TRUE, value |-> v, error |-> "none", site |-> "none", len |-> 0]
Raise(cls, site, n) == [ok |-> FALSE, value |-> <<>>, error |-> cls, site |-> site, len |-> n]

\* requests.JSONDecodeError(request_details) depends on the installed requests:
\* the name is missing (AttributeError), the constructor refuses one argument
\* (TypeError), or the exception is built and raised.
JSONDecodeErrorOutcomes == {"AttributeError", "TypeError", "JSONDecodeError"}

\* --------------------------------------------------------------- functions
\* get_api_answer: params = {'from_date': current_timestamp or int(time.time())}.
\* The values from_date can take: the clock is read only for a falsy timestamp.
FromDate(current) == IF current # 0 THEN {current} ELSE Now

\* get_api_answer after the request. The except clause only logs, so a failed
\* requests.get leaves response unbound and a failed .json() leaves
\* response_json unbound: building request_details then raises
\* UnboundLocalError. built is what requests.JSONDecodeError(...) gives.
get_api_answer(x, built) ==
    IF x.transport # "ok"
    THEN Raise("UnboundLocalError", "request_details", BuiltinMsgLen)
    ELSE IF ~x.http_ok
    THEN Raise("APIError", "status", RequestDetailsLen + x.body_len)
    ELSE IF x.kind = "scalar"
    THEN Raise("TypeError", "membership", BuiltinMsgLen)
    ELSE IF x.has_error \/ x.has_code
    THEN Raise(built, "envelope",
               IF built = "JSONDecodeError" THEN RequestDetailsLen + x.body_len
               ELSE BuiltinMsgLen)
    ELSE Return(x)

\* Mutant of check_response: the homeworks field is not examined.
check_response_NoListTest(response) ==
    IF response.kind # "dict"
    THEN Raise("TypeError", "subscript", BuiltinMsgLen)
    ELSE IF response.date_kind = "absent"
    THEN Raise("KeyError", "current_date", CurrentDateKeyLen)
    ELSE IF response.date_kind # "int"
    THEN Raise("TypeError", "current_date_type", NotIntMsgLen)
    ELSE Return(response.homeworks)

\* check_response: response['current_date'] is read first, so a body that is
\* no dict fails in the subscript and a dict without the key raises KeyError.
check_response(response) ==
    IF response.kind # "dict"
    THEN Raise("TypeError", "subscript", BuiltinMsgLen)
    ELSE IF response.date_kind = "absent"
    THEN Raise("KeyError", "current_date", CurrentDateKeyLen)
    ELSE IF response.date_kind # "int"
    THEN Raise("TypeError", "current_date_type", NotIntMsgLen)
    ELSE IF response.hw_kind # "list"
    THEN Raise("TypeError", "homeworks_type",
               NotListMsgLen + (IF response.hw_kind = "absent" THEN TextLen("None")
                                ELSE response.hw_len))
    ELSE Return(response.homeworks)

\* datetime.datetime.fromtimestamp(current_timestamp) in main's debug log.
fromtimestamp(t) ==
    IF t > MaxTimestamp THEN Raise("ValueError", "fromtimestamp", BuiltinMsgLen)
    ELSE Return(t)

\* A message text: what it is made of and len(message).
Msg(kind, name, verdict, error, site, n) ==
    [kind |-> kind, name |-> name, verdict |-> verdict, error |-> error,
     site |-> site, len |-> n]

NO_CHANGE_MESSAGE == Msg("no_change", "none", "none", "none", "none", NoChangeLen)

\* The local message before the try block assigns it.
Unassigned == Msg("unassigned", "none", "none", "none", "none", 0)

\* Mutant of parse_status: an unknown status raises an exception of its own
\* class instead of KeyError.
parse_status_OwnError(homework) ==
    IF ~homework.isdict
    THEN Raise("TypeError", "homework_type", NotDictMsgLen + SmallText)
    ELSE IF homework.status \notin DOMAIN HOMEWORK_STATUSES
    THEN Raise("UnknownStatusError", "status",
               UnknownStatusMsgLen + TextLen(homework.status))
    ELSE Return(Msg("status",
                    IF homework.homework_name = "absent" THEN "None"
                    ELSE homework.homework_name,
                    HOMEWORK_STATUSES[homework.status], "none", "none",
                    StatusFrameLen
                        + TextLen(IF homework.homework_name = "absent" THEN "None"
                                  ELSE homework.homework_name)
                        + TextLen(HOMEWORK_STATUSES[homework.status])))

\* Mutant of parse_status: homework['homework_name'] instead of .get, so a
\* missing name raises KeyError.
parse_status_NameRequired(homework) ==
    IF ~homework.isdict
    THEN Raise("TypeError", "homework_type", NotDictMsgLen + SmallText)
    ELSE IF homework.homework_name = "absent"
    THEN Raise("KeyError", "homework_name", CurrentDateKeyLen)
    ELSE IF homework.status \notin DOMAIN HOMEWORK_STATUSES
    THEN Raise("KeyError", "status",
               UnknownStatusMsgLen + TextLen(homework.status))
    ELSE Return(Msg("status", homework.homework_name,
                    HOMEWORK_STATUSES[homework.status], "none", "none",
                    StatusFrameLen + TextLen(homework.homework_name)
                        + TextLen(HOMEWORK_STATUSES[homework.status])))

\* parse_status: homework.get('homework_name') gives None for a missing name.
parse_status(homework) ==
    IF ~homework.isdict
    THEN Raise("TypeError", "homework_type", NotDictMsgLen + SmallText)
    ELSE LET homework_name == IF homework.homework_name = "absent" THEN "None"
                              ELSE homework.homework_name
             homework_status == homework.status
         IN IF homework_status \notin DOMAIN HOMEWORK_STATUSES
            THEN Raise("KeyError", "status",
                       UnknownStatusMsgLen + TextLen(homework_status))
            ELSE LET verdict == HOMEWORK_STATUSES[homework_status]
                 IN Return(Msg("status", homework_name, verdict, "none", "none",
                               StatusFrameLen + TextLen(homework_name)
                                   + TextLen(verdict)))

\* message = f'Сбой в работе программы: {error}'
FailureMessage(r) ==
    Msg("failure", "none", "none", r.error, r.site, FailPrefixLen + r.len)

\* The except clause of main: isinstance(error, (APIError, KeyError, TypeError)).
RecoverableErrors == {"APIError", "KeyError", "TypeError"}
\* Mutant of ErrorsCacheAfter: KeyError left out of the isinstance tuple.
ErrorsCacheAfter_NoKeyError(error, cache) ==
    IF error \in {"APIError", "TypeError"} THEN cache + 1 ELSE -1

ErrorsCacheAfter(error, cache) ==
    IF error \in RecoverableErrors THEN cache + 1 ELSE -1

\* Mutant of ShouldSend: the errors_cache test left out.
ShouldSend_IgnoresCache(msg, cache) ==
    /\ ~(msg = NO_CHANGE_MESSAGE)
    /\ msg.len < MESSAGE_CAP

\* The exception classes that do not derive from Exception. The functions
\* of the try block raise none of them.
NotExceptions == {"KeyboardInterrupt", "SystemExit", "GeneratorExit"}

\* Mutant of Caught: except (APIError, KeyError, TypeError) instead of
\* except Exception.
Caught_OnlyRecoverable(error) == error \in RecoverableErrors

\* except Exception as error: the clause takes every exception of the try
\* block.
Caught(error) == error \notin NotExceptions

\* The condition of main's finally block.
ShouldSend(msg, cache) ==
    /\ ~(msg = NO_CHANGE_MESSAGE)
    /\ cache <= 0
    /\ msg.len < MESSAGE_CAP

\* What one pass through try/except/else leaves behind:
\*   stage: where the try block ended ("fetch", "validate", "timestamp",
\*          "format": the step that raised; "done": no exception)
Outcome(stage, r, ts, cache, msg, hws, calls) ==
    [stage |-> stage, error |-> r.error, site |-> r.site,
     current_timestamp |-> ts, errors_cache |-> cache, message |-> msg,
     homeworks_len |-> Len(hws),
     homework0 |-> IF Len(hws) = 0 THEN NotADict ELSE hws[1],
     calls |-> calls]

\* Mutant of Failed: the except clause also clears current_timestamp.
Failed_ClearsTimestamp(stage, r, ts, cache, hws, calls) ==
    Outcome(stage, r, 0, ErrorsCacheAfter(r.error, cache), FailureMessage(r), hws,
            calls)

\* The except clause of main.
Failed(stage, r, ts, cache, hws, calls) ==
    Outcome(stage, r, ts, ErrorsCacheAfter(r.error, cache), FailureMessage(r), hws,
            calls)

\* current_timestamp = response['current_date']
NextTimestamp(current, response) == response.current_date

\* Mutant of Chosen: the last homework instead of the first.
Chosen_Last(homeworks) == homeworks[Len(homeworks)]

\* The homework main formats: homeworks[0].
Chosen(homeworks) == homeworks[1]

\* The functions of the module main calls in the try block, in call order.
Fetched == <<"get_api_answer">>
Checked == <<"get_api_answer", "check_response">>
Parsed == <<"get_api_answer", "check_response", "parse_status">>

\* The try block after get_api_answer returned response.
AfterFetch(current, cache, response) ==
    LET checked == check_response(response)
    IN IF ~checked.ok THEN Failed("validate", checked, current, cache, <<>>, Checked)
       ELSE
       LET homeworks == checked.value
           stamp == fromtimestamp(current)
       IN IF ~stamp.ok
          THEN Failed("timestamp", stamp, current, cache, homeworks, Checked)
          ELSE
          LET ts == NextTimestamp(current, response)
          IN IF Len(homeworks) = 0
             THEN Outcome("done", Return(<<>>), ts, -1, NO_CHANGE_MESSAGE,
                          homeworks, Checked)
             ELSE
             LET parsed == parse_status(Chosen(homeworks))
             IN IF ~parsed.ok
                THEN Failed("format", parsed, ts, cache, homeworks, Parsed)
                ELSE Outcome("done", parsed, ts, -1, parsed.value, homeworks,
                             Parsed)

\* Mutant of TryBlock: check_response is called although get_api_answer raised.
TryBlock_NoShortCircuit(current, cache, x, built) ==
    LET fetched == get_api_answer(x, built)
    IN IF ~fetched.ok THEN Failed("fetch", fetched, current, cache, <<>>, Checked)
       ELSE AfterFetch(current, cache, fetched.value)

\* Lines of the try statement of main, for one exchange with the API.
TryBlock(current, cache, x, built) ==
    LET fetched == get_api_answer(x, built)
    IN IF ~fetched.ok THEN Failed("fetch", fetched, current, cache, <<>>, Fetched)
       ELSE AfterFetch(current, cache, fetched.value)

\* What main hands to check_response, as far as check_response looks at it:
\* the type of the body, of current_date and of homeworks, and the list.
Shape(response) ==
    [kind |-> response.kind, date_kind |-> response.date_kind,
     hw_kind |-> response.hw_kind, count |-> Len(response.homeworks),
     first |-> IF Len(response.homeworks) = 0 THEN NotADict
               ELSE response.homeworks[1]]
NoResponse ==
    [kind |-> "none", date_kind |-> "absent", hw_kind |-> "absent", count |-> 0,
     first |-> NotADict]

\* check_tokens: all(TOKENS.values()); an empty string counts as missing.
TokenNames == {"PRACTICUM_TOKEN", "TELEGRAM_TOKEN", "TELEGRAM_CHAT_ID"}
TokenValues == {"unset", "empty", "set"}
\* Mutant of check_tokens: any() instead of all().
check_tokens_Any(env) == \E t \in TokenNames : env[t] = "set"

check_tokens(env) == \A t \in TokenNames : env[t] = "set"

\* What bot.send_message does: it returns, or raises Unauthorized, BadRequest,
\* TimedOut or an exception of another class.
SendResults == {"sent", "Unauthorized", "BadRequest", "TimedOut", "Exception"}

\* Mutant of send_message: the last clause, except Exception, left out.
send_message_NoCatchAll(result) ==
    IF result = "sent" THEN "info"
    ELSE IF result \in {"Unauthorized", "BadRequest", "TimedOut"} THEN "error"
    ELSE "raised"

\* send_message: the try statement around bot.send_message. It logs at info
\* level after a send and at error level in each except clause; "raised"
\* would be an exception that leaves the function.
send_message(result) ==
    IF result = "sent" THEN "info"
    ELSE IF result = "Unauthorized" THEN "error"
    ELSE IF result = "BadRequest" THEN "error"
    ELSE IF result = "TimedOut" THEN "error"
    ELSE "error"

\* ------------------------------------------------------------------- state
VARIABLES
    pc,                 \* where main is: start, poll, notify, sleep; stopped
                        \* (EnvError before the loop); no_bot (Bot() refused
                        \* the token); crashed (an exception left the loop)
    tokens,             \* the three environment values
    current_timestamp,  \* main's current_timestamp
    errors_cache,       \* main's errors_cache
    message,            \* main's message
    from_date,          \* params['from_date'] of the cycle's request
    stage, error, site, \* how the cycle's try block ended
    homeworks_len,      \* len(homeworks) when check_response returned
    homework0,          \* homeworks[0] when there is one
    given,              \* the response get_api_answer returned (see Shape)
    calls,              \* the module's functions called in the cycle, in order
    sent,               \* calls of send_message in the cycle
    send_result,        \* what bot.send_message did in the cycle
    start_timestamp,    \* current_timestamp when the cycle began
    start_cache,        \* errors_cache when the cycle began
    last,               \* how the previous cycle ended (see Ending)
    streak,             \* cycles right before this one that failed in
                        \* get_api_answer or check_response, in a row
    streak_base         \* that row began at start or after a "done" cycle

vars == <<pc, tokens, current_timestamp, errors_cache, message, from_date,
          stage, error, site, homeworks_len, homework0, given, calls, sent,
          send_result, start_timestamp, start_cache, last, streak,
          streak_base>>

locals == <<message, from_date, stage, error, site, homeworks_len, homework0,
            given, calls, sent, send_result>>
history == <<start_timestamp, start_cache, last, streak,
             streak_base>>

\* The cycle's locals before the try block runs. Each of them is assigned in
\* every pass before it is read, so the value left by the previous pass is
\* never seen.
FreshLocals ==
    /\ message' = Unassigned
    /\ from_date' = 0
    /\ stage' = "none"
    /\ error' = "none"
    /\ site' = "none"
    /\ homeworks_len' = 0
    /\ homework0' = NotADict
    /\ given' = NoResponse
    /\ calls' = <<>>
    /\ sent' = 0
    /\ send_result' = "none"

Init ==
    /\ pc = "start"
    /\ tokens \in [TokenNames -> TokenValues]
    /\ current_timestamp = 0
    /\ errors_cache = -1
    /\ message = Unassigned
    /\ from_date = 0
    /\ stage = "none"
    /\ error = "none"
    /\ site = "none"
    /\ homeworks_len = 0
    /\ homework0 = NotADict
    /\ given = NoResponse
    /\ calls = <<>>
    /\ sent = 0
    /\ send_result = "none"
    /\ start_timestamp = 0
    /\ start_cache = -1
    /\ last = "start"
    /\ streak = 0
    /\ streak_base = TRUE

\* main before the loop, tokens present: bot, current_timestamp, errors_cache.
Start ==
    /\ pc = "start"
    /\ check_tokens(tokens)
    /\ \E now \in Now :
        /\ current_timestamp' = now
        /\ start_timestamp' = now
    /\ errors_cache' = -1
    /\ start_cache' = -1
    /\ pc' = "poll"
    /\ UNCHANGED <<tokens, locals, last, streak, streak_base>>

\* main before the loop, tokens present, but Bot(token=TELEGRAM_TOKEN) raises
\* (the library rejects a malformed token).
NoBot ==
    /\ pc = "start"
    /\ check_tokens(tokens)
    /\ pc' = "no_bot"
    /\ UNCHANGED <<tokens, current_timestamp, errors_cache, locals, history>>

\* main before the loop, a token missing: raise EnvError.
Refuse ==
    /\ pc = "start"
    /\ ~check_tokens(tokens)
    /\ pc' = "stopped"
    /\ UNCHANGED <<tokens, current_timestamp, errors_cache, locals, history>>

\* One pass through try/except/else of the loop.
Poll ==
    /\ pc = "poll"
    /\ from_date' \in FromDate(current_timestamp)
    /\ \E x \in Exchanges :
       \E built \in (IF x.transport = "ok" /\ x.http_ok /\ x.kind # "scalar"
                        /\ (x.has_error \/ x.has_code)
                     THEN JSONDecodeErrorOutcomes ELSE {"none"}) :
        LET o == TryBlock(current_timestamp, errors_cache, x, built)
            fetched == get_api_answer(x, built)
        IN /\ o.errors_cache <= MaxErrors
           /\ given' = (IF fetched.ok THEN Shape(fetched.value) ELSE NoResponse)
           /\ calls' = o.calls
           /\ current_timestamp' = o.current_timestamp
           /\ errors_cache' = o.errors_cache
           /\ message' = o.message
           /\ stage' = o.stage
           /\ error' = o.error
           /\ site' = o.site
           /\ homeworks_len' = o.homeworks_len
           /\ homework0' = o.homework0
           /\ pc' = IF o.stage = "done" \/ Caught(o.error) THEN "notify"
                    ELSE "crashed"
    /\ UNCHANGED <<tokens, sent, send_result, history>>

\* The finally block up to the sleep: send_message when the condition holds.
Notify ==
    /\ pc = "notify"
    /\ IF ShouldSend(message, errors_cache)
       THEN /\ sent' = sent + 1
            /\ calls' = Append(calls, "send_message")
            /\ send_result' \in SendResults
            /\ pc' = IF send_message(send_result') = "raised" THEN "crashed"
                     ELSE "sleep"
       ELSE /\ UNCHANGED <<sent, send_result, calls>>
            /\ pc' = "sleep"
    /\ UNCHANGED <<tokens, current_timestamp, errors_cache, message, from_date,
                   stage, error, site, homeworks_len, homework0, given, history>>

FetchOrValidate == {"fetch", "validate"}
Min(a, b) == IF a < b THEN a ELSE b

\* How a cycle ended, as the next cycle remembers it: "done" (no exception),
\* "no_current_date" (check_response found no current_date), "api" (any other
\* failure of get_api_answer or check_response), "other" (a later failure).
Ending(st, si) ==
    IF st = "done" THEN "done"
    ELSE IF si = "current_date" THEN "no_current_date"
    ELSE IF st \in FetchOrValidate THEN "api"
    ELSE "other"

\* time.sleep(RETRY_TIME) and back to the head of the loop.
Sleep ==
    /\ pc = "sleep"
    /\ pc' = "poll"
    /\ FreshLocals
    /\ start_timestamp' = current_timestamp
    /\ start_cache' = errors_cache
    /\ last' = Ending(stage, site)
    /\ streak' = IF stage \in FetchOrValidate THEN Min(streak + 1, StreakCap) ELSE 0
    /\ streak_base' = IF stage \in FetchOrValidate
                      THEN (IF streak = 0 THEN last \in {"start", "done"}
                            ELSE streak_base)
                      ELSE TRUE
    /\ UNCHANGED <<tokens, current_timestamp, errors_cache>>

Next == Start \/ NoBot \/ Refuse \/ Poll \/ Notify \/ Sleep

Spec == Init /\ [][Next]_vars

\* main is one thread that runs on: a step of the loop that can be taken is
\* taken (the request, the send and the sleep return).
FairSpec == Spec /\ WF_vars(Poll) /\ WF_vars(Notify) /\ WF_vars(Sleep)

\* ------------------------------------------------------------ the claims
\* A cycle is over (its notify step has run) when main is at the sleep.
CycleOver == pc = "sleep"
\* check_response returned in the cycle.
Validated == stage \in {"timestamp", "format", "done"}
\* The cycle is the first of a row of fetch/validation failures that begins
\* at process start or right after a cycle without exception.
FirstOfRun == stage \in FetchOrValidate /\ streak = 0 /\ last \in {"start", "done"}
\* The cycle is a later one of such a row.
LaterInRun == stage \in FetchOrValidate /\ streak > 0 /\ streak_base

\* C1 as stated: when a cycle is over, send_message was called in it if and
\* only if the message is not NO_CHANGE_MESSAGE and errors_cache is not > 0.
C1_Original ==
    CycleOver =>
        ((sent = 1) <=> (message # NO_CHANGE_MESSAGE /\ ~(errors_cache > 0)))

\* C1 amended: when a cycle is over, send_message was called in it (once) if
\* and only if the message is not NO_CHANGE_MESSAGE, errors_cache is not > 0
\* and the message is shorter than 5000 characters; never with
\* errors_cache > 0.
C1_NotifyIff ==
    CycleOver =>
        /\ sent \in {0, 1}
        /\ (sent = 1) <=> (/\ message # NO_CHANGE_MESSAGE
                           /\ ~(errors_cache > 0)
                           /\ message.len < MESSAGE_CAP)
        /\ errors_cache > 0 => sent = 0

\* A cycle whose message is no sentinel, with errors_cache <= 0, that did not
\* send because the message reaches the cap.
C1_Witness ==
    /\ CycleOver
    /\ message # NO_CHANGE_MESSAGE
    /\ errors_cache <= 0
    /\ message.len >= MESSAGE_CAP
    /\ sent = 0

\* C2 as stated: in a row of cycles failing in get_api_answer or
\* check_response that begins at start or after a success, the first cycle
\* sends the failure message (when under the cap) and no later one sends.
C2_Original ==
    CycleOver =>
        /\ (FirstOfRun /\ message.len < MESSAGE_CAP) => sent = 1
        /\ LaterInRun => sent = 0

\* C3 as stated: a first failure for a missing current_date takes errors_cache
\* from -1 to 0 and sends nothing; a second one in a row makes it 1 and sends
\* nothing.
C3_Original ==
    (CycleOver /\ stage = "validate" /\ site = "current_date") =>
        /\ last \in {"start", "done"} =>
              (start_cache = -1 /\ errors_cache = 0 /\ sent = 0)
        /\ (last = "no_current_date" /\ streak = 1 /\ streak_base) =>
              (errors_cache = 1 /\ sent = 0)

\* C3 amended: a first failure for a missing current_date takes errors_cache
\* from -1 to 0 and the failure message is sent in that cycle; a second one in
\* a row makes errors_cache 1 and sends nothing.
C3_FirstSentSecondSilent ==
    (CycleOver /\ stage = "validate" /\ site = "current_date") =>
        /\ last \in {"start", "done"} =>
              (start_cache = -1 /\ errors_cache = 0 /\ sent = 1)
        /\ (last = "no_current_date" /\ streak = 1 /\ streak_base) =>
              (errors_cache = 1 /\ sent = 0)

\* The second missing-current_date failure in a row, right after a first one
\* that followed start or a success.
C3_Witness ==
    /\ CycleOver
    /\ stage = "validate" /\ site = "current_date"
    /\ last = "no_current_date" /\ streak = 1 /\ streak_base
    /\ errors_cache = 1 /\ sent = 0

\* C4 as stated: a cycle that ends in any failure leaves current_timestamp as
\* it was when the cycle began.
C4_Original ==
    (pc \in {"notify", "sleep"} /\ stage # "done") =>
        current_timestamp = start_timestamp

C6_Original ==
    (CycleOver /\ stage = "format" /\ site = "status") =>
        (errors_cache = -1 /\ sent = 1)

\* C6 amended: a cycle in which parse_status fails for an unknown status
\* (a KeyError) increments errors_cache, and sends the failure message only
\* when errors_cache is then 0 (and the message is under the cap): a
\* persistent unknown status is notified once, not every cycle.
C6_UnknownStatusCounted ==
    (CycleOver /\ stage = "format" /\ site = "status") =>
        /\ error = "KeyError"
        /\ errors_cache = start_cache + 1
        /\ (sent = 1) <=> (errors_cache = 0 /\ message.len < MESSAGE_CAP)

\* An unknown status met while errors_cache was already 0: counted, not sent.
C6_Witness ==
    /\ CycleOver
    /\ stage = "format" /\ site = "status"
    /\ start_cache = 0 /\ errors_cache = 1
    /\ sent = 0

\* C7 as stated: a cycle whose request or JSON decoding fails ends with an
\* error of the recoverable class, errors_cache incremented, and sends
\* nothing when it follows another fetch/validation failure.
C7_Original ==
    (CycleOver /\ stage = "fetch" /\ site = "request_details") =>
        /\ error \in RecoverableErrors
        /\ errors_cache = start_cache + 1
        /\ streak > 0 => sent = 0

\* C8 as stated: a failing HTTP status, or an answer holding error or code,
\* makes get_api_answer raise APIError and the cycle increments errors_cache.
C8_Original ==
    (CycleOver /\ stage = "fetch" /\ site \in {"status", "envelope"}) =>
        /\ error = "APIError"
        /\ errors_cache = start_cache + 1

\* The text parse_status gives for a homework with a recognized status.
StatusText(homework) ==
    /\ message.kind = "status"
    /\ message.name = (IF homework.homework_name = "absent" THEN "None"
                       ELSE homework.homework_name)
    /\ message.verdict = HOMEWORK_STATUSES[homework.status]

\* C9 as stated: a cycle without exception whose answer has homeworks sends
\* exactly once, the text of the first homework, whatever the message is.
C9_Original ==
    (CycleOver /\ stage = "done" /\ homeworks_len > 0) =>
        (sent = 1 /\ StatusText(homework0))

\* C9 amended: a cycle without exception whose answer has homeworks prepares
\* the text of the first homework and sends it exactly once, whatever
\* errors_cache was before, provided the text is shorter than 5000
\* characters; a longer text is not sent.
C9_SuccessSent ==
    (CycleOver /\ stage = "done" /\ homeworks_len > 0) =>
        /\ StatusText(homework0)
        /\ errors_cache = -1
        /\ message.len < MESSAGE_CAP => sent = 1
        /\ message.len >= MESSAGE_CAP => sent = 0

\* A status change sent right after a suppressed row of errors, from an
\* answer with two homeworks.
C9_Witness ==
    /\ CycleOver
    /\ stage = "done" /\ homeworks_len = 2
    /\ start_cache > 0
    /\ sent = 1

\* C10 as stated: a cycle whose answer check_response accepted with an empty
\* homework list has NO_CHANGE_MESSAGE as its message and sends nothing.
C10_Original ==
    (CycleOver /\ Validated /\ homeworks_len = 0) =>
        (message = NO_CHANGE_MESSAGE /\ sent = 0)

\* C11 as stated: when a cycle is over errors_cache is at least -1; it is -1
\* after a cycle without exception; after a cycle that failed in
\* get_api_answer or check_response it is its value before the cycle plus 1,
\* so that in a row of such failures it counts the cycles that sent nothing.
C11_Original ==
    CycleOver =>
        /\ errors_cache >= -1
        /\ stage = "done" => errors_cache = -1
        /\ stage \in FetchOrValidate => errors_cache = start_cache + 1
        /\ FirstOfRun => errors_cache = 0
        /\ (LaterInRun /\ streak < StreakCap) => errors_cache = streak

\* The exceptions bot.send_message can raise.
SendFailures == SendResults \ {"sent"}

\* C12: a send that fails with any exception does not stop the cycle: the
\* step that calls send_message leads to the sleep with current_timestamp
\* and errors_cache as the try statement left them, and from the sleep the
\* next cycle can start.
C12_SendFailureContained ==
    /\ pc # "crashed"
    /\ send_result \in SendFailures =>
          /\ CycleOver
          /\ sent = 1
          /\ ENABLED Sleep
          /\ errors_cache = (IF stage = "done" THEN -1
                             ELSE ErrorsCacheAfter(error, start_cache))
          /\ stage \in {"fetch", "validate", "timestamp"} =>
                current_timestamp = start_timestamp

\* A cycle whose send failed with an exception of no named class, after an
\* error of the cycle had been counted.
C12_Witness ==
    /\ CycleOver
    /\ send_result = "Exception"
    /\ stage = "validate"
    /\ errors_cache = 0

\* C13: once the loop runs, no exception of get_api_answer, check_response,
\* parse_status or any other step of the try block ends it: after every
\* cycle, whatever its outcome, the loop reaches the try block again and
\* makes the next request.
C13_NextCycleBegins == CycleOver ~> (pc = "notify" /\ sent = 0)

\* The cycle after one that ended in an exception outside the counted
\* classes has made its request.
C13_Witness ==
    /\ pc = "notify"
    /\ last = "other"
    /\ from_date > 0

\* A required value is absent from the environment.
Missing == \E t \in TokenNames : tokens[t] = "unset"
InLoop == pc \in {"poll", "notify", "sleep", "crashed"}

\* C14: with one of the three values missing, main stops with EnvError
\* before the loop: it never makes a request and never sends; and the loop
\* runs only when all three values are there.
C14_NoLoopWithoutTokens ==
    /\ Missing =>
          /\ pc \in {"start", "stopped"}
          /\ from_date = 0 /\ stage = "none" /\ sent = 0
    /\ InLoop => \A t \in TokenNames : tokens[t] = "set"
    /\ pc = "stopped" => ~(\A t \in TokenNames : tokens[t] = "set")

\* main stopped with only the chat id missing.
C14_Witness ==
    /\ pc = "stopped"
    /\ tokens["PRACTICUM_TOKEN"] = "set"
    /\ tokens["TELEGRAM_TOKEN"] = "set"
    /\ tokens["TELEGRAM_CHAT_ID"] = "unset"

\* check_response was called in the cycle, on the response in given.
ValidatorRan == pc \in {"notify", "sleep", "crashed"} /\ given.kind # "none"
WellShaped ==
    given.kind = "dict" /\ given.date_kind = "int" /\ given.hw_kind = "list"

FormatterRan ==
    /\ pc \in {"notify", "sleep", "crashed"}
    /\ Len(calls) >= 3 /\ calls[3] = "parse_status"
Recognized == {"approved", "reviewing", "rejected"}

\* C16: for a homework that is a dict, parse_status returns exactly when
\* its status is approved, reviewing or rejected, with or without a
\* homework_name; the text it returns is made of the name (None when
\* missing) and the verdict HOMEWORK_STATUSES holds for the status; any other
\* status raises in the status lookup.
C16_FormatterExact ==
    /\ DOMAIN HOMEWORK_STATUSES = Recognized
    /\ (FormatterRan /\ homework0.isdict) =>
          /\ stage = "done" <=> homework0.status \in Recognized
          /\ stage = "done" =>
                /\ StatusText(homework0)
                /\ message.len = StatusFrameLen + TextLen(message.name)
                                    + TextLen(message.verdict)
          /\ stage # "done" => (stage = "format" /\ site = "status")

\* A homework without a name whose status is rejected was formatted.
C16_Witness ==
    /\ FormatterRan
    /\ stage = "done"
    /\ homework0.isdict
    /\ homework0.homework_name = "absent"
    /\ homework0.status = "rejected"
    /\ message.name = "None"

\* The order of the steps of a cycle.
Rank(call) ==
    CASE call = "get_api_answer" -> 1
      [] call = "check_response" -> 2
      [] call = "parse_status" -> 3
      [] call = "send_message" -> 4
Called(call) == \E i \in 1..Len(calls) : calls[i] = call
InOrder ==
    \A i, j \in 1..Len(calls) : i < j => Rank(calls[i]) < Rank(calls[j])
PcSteps ==
    {<<"start", "poll">>, <<"start", "stopped">>, <<"start", "no_bot">>,
     <<"poll", "notify">>, <<"poll", "crashed">>,
     <<"notify", "sleep">>, <<"notify", "crashed">>,
     <<"sleep", "poll">>}

\* C17: in a cycle the functions are called in the order get_api_answer,
\* check_response, parse_status, send_message, each at most once;
\* check_response is not called when get_api_answer raised and parse_status
\* is not called when check_response raised; the request of a cycle is made
\* only after the notify step and the sleep of the previous cycle.
C17_SingleFlightOrdered ==
    /\ [](/\ InOrder
          /\ sent <= 1
          /\ sent = 1 <=> Called("send_message")
          /\ pc \in {"start", "stopped", "no_bot", "poll"} => calls = <<>>
          /\ pc \in {"notify", "sleep"} => calls[1] = "get_api_answer"
          /\ pc = "notify" => ~Called("send_message")
          /\ stage = "fetch" => calls = <<"get_api_answer">> \o
                                   (IF sent = 1 THEN <<"send_message">> ELSE <<>>)
          /\ stage = "validate" => ~Called("parse_status")
          /\ Called("parse_status") => Called("check_response") /\ Validated)
    /\ [][/\ pc' # pc => <<pc, pc'>> \in PcSteps
          /\ (calls' # calls /\ calls' # <<>> /\ calls'[1] # Head(calls \o <<"none">>))
                => pc = "poll"
          /\ from_date' # from_date => (pc = "poll" \/ pc = "sleep")
          /\ (Called("send_message")' /\ ~Called("send_message")) => pc = "notify"]_vars

\* A cycle that ran all four steps and is at its sleep.
C17_Witness ==
    /\ pc = "sleep"
    /\ calls = <<"get_api_answer", "check_response", "parse_status", "send_message">>
    /\ last = "api"

\* C18 as stated: the from_date of a cycle's request is current_timestamp as
\* it was when the cycle began, whatever integer that is.
C18_Original ==
    pc \in {"notify", "sleep"} => from_date = start_timestamp

====
